---- MODULE Spec2Model ----
(***************************************************************************)
(* A model of seismic_zfp's SEGY -> SZ conversion (seismic_zfp/convert.py) *)
(* and of the reference diagonal gather of                                 *)
(* examples/read-correlated-diagonal.py.                                   *)
(*                                                                         *)
(* Representation of the data.                                             *)
(*  - A bytes / bytearray object is a sequence of integers 0..255.         *)
(*  - A float32 vector along the sample axis (one trace of an array) is    *)
(*    kept run-length encoded as [head |-> <<v1,...,vn>>, len |-> L]: the  *)
(*    L-long vector whose first n values are head and whose other L-n      *)
(*    values are 0.0.  np.zeros gives head = <<>>.  The sample axis is     *)
(*    padded to a multiple of 2048/bits_per_voxel >= 128, so the zero run  *)
(*    is long; nothing in convert.py writes into it.                       *)
(*  - A 3-D array of shape (n0,n1,n2) is a function                        *)
(*    [0..n0-1 -> [0..n1-1 -> vector of length n2]].                       *)
(*  - The source volume has generic samples: sample s of trace t is the    *)
(*    positive integer 1 + t*S + s, different for every (t,s) and never    *)
(*    the padding value 0.                                                 *)
(*  - Integers values are kept below 2^31.                                 *)
(***************************************************************************)
EXTENDS Integers, Sequences, FiniteSets, TLC

(***************************************************************************)
(* Program constants                                                       *)
(***************************************************************************)
DISK_BLOCK_BYTES == 4096

\* asyncio.Queue(maxsize=16)
maxsize == 16

\* the codec's block edge: groups of 4 inlines, 4 crosslines
BLOCK == 4

\* samples are padded to a multiple of 2048 // bits_per_voxel
SAMPLE_BITS == 2048

(***************************************************************************)
(* Bounds of the model                                                     *)
(***************************************************************************)
\* small volumes: 1..MaxInlines inlines, 1..MaxXlines crosslines,
\* 1..MaxSamples samples per trace
MaxInlines == 5
MaxXlines == 5
MaxSamples == 3
\* long volumes: maxsize+1 .. maxsize+MaxExtraGroups inline groups
MaxExtraGroups == 2
\* header codec inputs: axis lengths 1..MaxAxisLen next to the large ones
MaxAxisLen == 3
\* block partitioner inputs: 1..MaxPadInlines inlines, 1..MaxPadXlines
\* crosslines, trace lengths within 1 of the first MaxPadMultiple multiples
\* of each 2048 // bits_per_voxel
MaxPadInlines == 9
MaxPadXlines == 5
MaxPadMultiple == 2
\* diagonal gather inputs: grids up to MaxGrid x MaxGrid, first line numbers
\* up to DiagMargin outside the valid range
MaxGrid == 5
DiagMargin == 2
\* failures: the reader raises on one of the inlines 0..MaxFaultInline, on
\* the first inline past a full queue or on the last one; the consumer
\* raises on one of the groups 0..MaxFaultGroup or on the last one
MaxFaultInline == 4
MaxFaultGroup == 1

(***************************************************************************)
(* Python / numpy helpers                                                  *)
(***************************************************************************)
Min(a, b) == IF a < b THEN a ELSE b
Max(a, b) == IF a > b THEN a ELSE b

RECURSIVE Pow2(_)
Pow2(n) == IF n = 0 THEN 1 ELSE 2 * Pow2(n - 1)

RECURSIVE Log2Floor(_)
Log2Floor(a) == IF a < 2 THEN 0 ELSE 1 + Log2Floor(a \div 2)

\* a 2-byte little-endian encoding: what to_bytes(2, ...) would give
to_bytes_short(n) == << n % 256, (n \div 256) % 256 >>

\* n.to_bytes(4, byteorder='little'), 0 <= n < 2^31
to_bytes(n) ==
    << n % 256, (n \div 256) % 256, (n \div 65536) % 256, (n \div 16777216) % 256 >>

\* int.from_bytes(b, 'little') of 4 bytes, the reader's decoding
from_bytes(b) == b[1] + 256 * b[2] + 65536 * b[3] + 16777216 * b[4]

\* bytearray(n): n zero bytes
bytearray(n) == [k \in 1..n |-> 0]

\* buffer[a:b] = data on a bytearray (0-based, half-open).  Python replaces
\* the slice by data whatever data's length is: the buffer shrinks or grows
\* when Len(data) # b - a.  (buf \in {buffer}: buffer is evaluated once.)
SetSlice(buffer, a, b, data) ==
    CHOOSE r \in { SubSeq(buf, 1, a) \o data \o SubSeq(buf, b + 1, Len(buf)) :
                   buf \in {buffer} } : TRUE

\* utils.np_float_to_bytes(v): the 4 bytes of the IEEE-754 float32 of v,
\* little-endian, for an integer v with |v| < 2^24
np_float_to_bytes(v) ==
    IF v = 0 THEN << 0, 0, 0, 0 >>
    ELSE LET a == IF v < 0 THEN -v ELSE v
             sign == IF v < 0 THEN 1 ELSE 0
             e == Log2Floor(a)
             m == (a - Pow2(e)) * Pow2(23 - e)
             be == e + 127
         IN  << m % 256,
                (m \div 256) % 256,
                (be % 2) * 128 + (m \div 65536),
                sign * 128 + (be \div 2) >>

\* the float32 the 4 bytes b encode, little-endian (an integer here)
bytes_to_float(b) ==
    LET sign == b[4] \div 128
        be == (b[4] % 128) * 2 + (b[3] \div 128)
        m == (b[3] % 128) * 65536 + b[2] * 256 + b[1]
        mag == IF be = 0 /\ m = 0 THEN 0
               ELSE (8388608 + m) \div Pow2(150 - be)
    IN  IF sign = 1 THEN -mag ELSE mag

\* utils.pad(size, multiple): size rounded up to a multiple
pad(size, multiple) == ((size + multiple - 1) \div multiple) * multiple

(***************************************************************************)
(* The source volume, as segyio shows it.  An axis (segyfile.ilines,       *)
(* .xlines, .samples) is a regular list [n, first, inc]: n values          *)
(* first, first+inc, ...                                                   *)
(***************************************************************************)
AxisLen(axis) == axis.n
AxisAt(axis, k) == axis.first + k * axis.inc

Axis(n, first, inc) == [n |-> n, first |-> first, inc |-> inc]

\* segyfile.trace[t]: the samples of trace number t (inline-sorted file)
Trace(segyfile, t) ==
    [s \in 1..AxisLen(segyfile.samples) |-> 1 + t * AxisLen(segyfile.samples) + (s - 1)]

\* segyfile.iline[lineno]: array of shape (n_xlines, n_samples)
iline(segyfile, lineno) ==
    LET k == (lineno - segyfile.ilines.first) \div segyfile.ilines.inc
    IN  [x \in 0..(AxisLen(segyfile.xlines) - 1) |->
            Trace(segyfile, k * AxisLen(segyfile.xlines) + x)]

\* segyio.tools.cube(filename): array of shape (n_ilines, n_xlines, n_samples)
cube(segyfile) ==
    [i \in 0..(AxisLen(segyfile.ilines) - 1) |->
        iline(segyfile, AxisAt(segyfile.ilines, i))]

\* data.shape of an array read from the source, its traces held in full
DataShape(array) ==
    << Cardinality(DOMAIN array), Cardinality(DOMAIN array[0]), Len(array[0][0]) >>

(***************************************************************************)
(* numpy arrays                                                            *)
(***************************************************************************)
ZeroVec(n) == [head |-> << >>, len |-> n]

\* vec[0:Len(values)] = values
SetVec(vec, values) ==
    [head |-> values \o SubSeq(vec.head, Len(values) + 1, Len(vec.head)),
     len |-> vec.len]

\* vec[s] for 0 <= s < vec.len
VecAt(vec, s) == IF s < Len(vec.head) THEN vec.head[s + 1] ELSE 0

\* np.zeros(shape, dtype=np.float32) for a 3-D shape
np_zeros(shape) ==
    [i \in 0..(shape[1] - 1) |-> [x \in 0..(shape[2] - 1) |-> ZeroVec(shape[3])]]

\* plane[0:n1, 0:n2] = data for a 2-D data of shape (n1, n2)
SetPlane(plane, data) ==
    [x \in DOMAIN plane |-> IF x \in DOMAIN data THEN SetVec(plane[x], data[x])
                            ELSE plane[x]]

\* array[0:n0, 0:n1, 0:n2] = data for a 3-D data of shape (n0, n1, n2)
SetVolume(array, data) ==
    [i \in DOMAIN array |-> IF i \in DOMAIN data THEN SetPlane(array[i], data[i])
                            ELSE array[i]]

\* array.shape of an array made by np.zeros
ArrayShape(array) ==
    << Cardinality(DOMAIN array), Cardinality(DOMAIN array[0]), array[0][0].len >>

(***************************************************************************)
(* pyzfp.compress(array, rate): fixed-rate, block by block.  zfp walks the *)
(* 4x4x4 blocks of a C-ordered (n0,n1,n2) array with the first axis        *)
(* slowest and the last axis fastest and emits 64*rate bits per block.     *)
(* The n2/4 consecutive blocks of one (inline block, crossline block) are  *)
(* determined by the 16 vectors they cut; their n2/4 * 8 * rate bytes are  *)
(* one element <<rate, n2/4, the 16 vectors>> of the compressed sequence.  *)
(***************************************************************************)
\* the 16 vectors of inline block ib, crossline block xb
BlockVecs(array, ib, xb) ==
    [j \in 1..(BLOCK * BLOCK) |->
        array[BLOCK * ib + ((j - 1) \div BLOCK)][BLOCK * xb + ((j - 1) % BLOCK)]]

\* the code of the blocks of inline block ib, crossline block xb
EncodeBlocks(array, rate, ib, xb) ==
    << << rate, ArrayShape(array)[3] \div BLOCK, BlockVecs(array, ib, xb) >> >>

RECURSIVE CompressFrom(_, _, _)
CompressFrom(array, rate, b) ==
    LET shape == ArrayShape(array)
        nxb == shape[2] \div BLOCK
    IN  IF b = (shape[1] \div BLOCK) * nxb THEN << >>
        ELSE EncodeBlocks(array, rate, b \div nxb, b % nxb)
                \o CompressFrom(array, rate, b + 1)

compress(array, rate) == CompressFrom(array, rate, 0)

(***************************************************************************)
(* make_header                                                             *)
(***************************************************************************)
header_blocks == 1

\* the increment looked for along the sample axis only
make_header_raises_samples(segyfile) == AxisLen(segyfile.samples) < 2

\* segyfile.samples[1], .xlines[1], .ilines[1] raise IndexError on an axis
\* of fewer than 2 values
make_header_raises(segyfile) ==
    \/ AxisLen(segyfile.samples) < 2
    \/ AxisLen(segyfile.xlines) < 2
    \/ AxisLen(segyfile.ilines) < 2

make_header(segyfile, rate) ==
    LET b0 == bytearray(DISK_BLOCK_BYTES * header_blocks)
        b1 == SetSlice(b0, 0, 4, to_bytes(header_blocks))
        b2 == SetSlice(b1, 4, 8, to_bytes(AxisLen(segyfile.samples)))
        b3 == SetSlice(b2, 8, 12, to_bytes(AxisLen(segyfile.xlines)))
        b4 == SetSlice(b3, 12, 16, to_bytes(AxisLen(segyfile.ilines)))
        b5 == SetSlice(b4, 16, 20, np_float_to_bytes(AxisAt(segyfile.samples, 0)))
        b6 == SetSlice(b5, 20, 24, np_float_to_bytes(AxisAt(segyfile.xlines, 0)))
        b7 == SetSlice(b6, 24, 28, np_float_to_bytes(AxisAt(segyfile.ilines, 0)))
        b8 == SetSlice(b7, 28, 32, np_float_to_bytes(
                  AxisAt(segyfile.samples, 1) - AxisAt(segyfile.samples, 0)))
        b9 == SetSlice(b8, 32, 36, np_float_to_bytes(
                  AxisAt(segyfile.xlines, 1) - AxisAt(segyfile.xlines, 0)))
        b10 == SetSlice(b9, 36, 40, np_float_to_bytes(
                  AxisAt(segyfile.ilines, 1) - AxisAt(segyfile.ilines, 0)))
    IN  SetSlice(b10, 40, 44, to_bytes(rate))

(***************************************************************************)
(* The padded shapes and the producer's group buffer                       *)
(***************************************************************************)
\* convert_segy_inmem: padded_shape from data.shape
inmem_padded_shape(shape, rate) ==
    << pad(shape[1], BLOCK), pad(shape[2], BLOCK), pad(shape[3], SAMPLE_BITS \div rate) >>

\* produce: trace_length = test_slice.shape[1]
trace_length(segyfile) ==
    Len(iline(segyfile, AxisAt(segyfile.ilines, 0))[0])

\* the samples padded like the other two axes
stream_padded_shape_block(segyfile, rate) ==
    << pad(AxisLen(segyfile.ilines), BLOCK),
       pad(AxisLen(segyfile.xlines), BLOCK),
       pad(trace_length(segyfile), BLOCK) >>

\* produce: padded_shape from the axis lengths and the test slice
stream_padded_shape(segyfile, rate) ==
    << pad(AxisLen(segyfile.ilines), BLOCK),
       pad(AxisLen(segyfile.xlines), BLOCK),
       pad(trace_length(segyfile), SAMPLE_BITS \div rate) >>

\* the test of line 133 with >= for >
planes_to_read_ge(segyfile, id) ==
    IF (id + 1) * BLOCK >= AxisLen(segyfile.ilines)
    THEN AxisLen(segyfile.ilines) % BLOCK
    ELSE BLOCK

\* produce: the number of inlines read into group id
planes_to_read(segyfile, id) ==
    IF (id + 1) * BLOCK > AxisLen(segyfile.ilines)
    THEN AxisLen(segyfile.ilines) % BLOCK
    ELSE BLOCK

\* the inlines of group id taken from id on, not from 4 * id on
group_buffer_stride(segyfile, shape, id) ==
    LET zeros == np_zeros(<< BLOCK, shape[2], shape[3] >>)
    IN  [i \in DOMAIN zeros |->
            IF i < planes_to_read(segyfile, id)
            THEN SetPlane(zeros[i],
                          iline(segyfile, AxisAt(segyfile.ilines, id + i)))
            ELSE zeros[i]]

\* produce: a fresh zero buffer of shape (4, X', S') with the group's
\* inlines copied in
group_buffer(segyfile, shape, id) ==
    LET zeros == np_zeros(<< BLOCK, shape[2], shape[3] >>)
    IN  [i \in DOMAIN zeros |->
            IF i < planes_to_read(segyfile, id)
            THEN SetPlane(zeros[i],
                          iline(segyfile, AxisAt(segyfile.ilines, id * BLOCK + i)))
            ELSE zeros[i]]

\* convert_segy_inmem: the zero volume of the padded shape with the cube
\* copied in
padded_volume(cubedata, shape) == SetVolume(np_zeros(shape), cubedata)

(***************************************************************************)
(* State                                                                   *)
(***************************************************************************)
VARIABLES
    segyfile,          \* the source volume (in_filename)
    bits_per_voxel,
    method,
    vm,                \* psutil.virtual_memory(): [total, available]
    fault,             \* what the collaborators do wrong: [reader, consumer, stage]
    out_file,          \* the destination: [exists, data]
    pc,                \* where the caller's thread (the run task) is
    error,             \* the exception the call raised, "" when none
    header,            \* make_header's buffer, << >> before it is built
    data,              \* convert_segy_inmem: the cube
    im_padded_shape,   \* convert_segy_inmem: padded_shape
    data_padded,       \* convert_segy_inmem
    compressed,        \* convert_segy_inmem
    padded_shape,      \* produce: padded_shape
    plane_set_id,      \* produce: the loop variable
    heap,              \* the group buffers alive, by reference
    segy_buffer,       \* produce: reference to its buffer, 0 when none
    queue,             \* asyncio.Queue: the references queued
    unfinished_tasks,  \* asyncio.Queue._unfinished_tasks
    consumer,          \* where the consumer task is
    c_segy_buffer,     \* consume: reference to its buffer, 0 when none
    c_compressed,      \* consume: compressed
    cancel_requested,  \* consumer.cancel() was called
    diag               \* the diagonal gather of the example script

inputs == << segyfile, bits_per_voxel, method, vm, fault >>
imvars == << data, im_padded_shape, data_padded, compressed >>
prodvars == << padded_shape, plane_set_id, segy_buffer >>
qvars == << queue, unfinished_tasks >>
consvars == << consumer, c_segy_buffer, c_compressed, cancel_requested >>
streamvars == << prodvars, heap, qvars, consvars >>
vars == << inputs, out_file, pc, error, header, imvars, streamvars, diag >>

None == << >>

Absent == [exists |-> FALSE, data |-> << >>]

\* open(out_filename, 'wb'): created or truncated
OpenWb == [exists |-> TRUE, data |-> << >>]

\* f.write(bytes)
Write(file, bytes) == [exists |-> file.exists, data |-> file.data \o bytes]

\* the buffers still referenced: CPython frees the others at once
Collect(h, refs) == [r \in (DOMAIN h) \cap refs |-> h[r]]

Range(seq) == { seq[k] : k \in DOMAIN seq }

(***************************************************************************)
(* Inputs                                                                  *)
(***************************************************************************)
Volume(ni, nx, ns) ==
    [ilines |-> Axis(ni, 10, 2), xlines |-> Axis(nx, 20, 1), samples |-> Axis(ns, 0, 4)]

SmallVolumes ==
    { Volume(ni, nx, ns) : ni \in 1..MaxInlines, nx \in 1..MaxXlines, ns \in 1..MaxSamples }

\* more inline groups than the queue holds, the last group short
LongVolumes ==
    { Volume(BLOCK * (maxsize + g) - 1, 2, 2) : g \in 1..MaxExtraGroups }

Rates == {1, 2, 4, 8, 16}

Methods == {"InMemory", "Stream", "Zip"}

MemChoices ==
    { [total |-> t, available |-> a] : t \in {32, 4096}, a \in {16} } \cup
    { [total |-> t, available |-> t] : t \in {32, 4096} }

OldFile == [exists |-> TRUE, data |-> << 7, 7, 7 >>]

\* fault.reader = k >= 0: segyfile.iline raises on the k-th inline of the
\* file; fault.consumer = j >= 0: the consumer's fault.stage ("compress" or
\* "write") raises on inline group j; -1: no such failure
NoFault == [reader |-> -1, consumer |-> -1, stage |-> "compress"]

NoDiag == [LINE_NO |-> 0, l |-> 0, diagonal_length |-> 0, traces |-> << >>]

Idle ==
    /\ error = ""
    /\ header = None
    /\ data = None
    /\ im_padded_shape = None
    /\ data_padded = None
    /\ compressed = None
    /\ padded_shape = None
    /\ plane_set_id = 0
    /\ heap = << >>
    /\ segy_buffer = 0
    /\ queue = << >>
    /\ unfinished_tasks = 0
    /\ consumer = "none"
    /\ c_segy_buffer = 0
    /\ c_compressed = None
    /\ cancel_requested = FALSE

Init ==
    /\ \/ /\ segyfile \in SmallVolumes
          /\ bits_per_voxel \in Rates
          /\ method \in Methods
          /\ out_file \in {Absent, OldFile}
          /\ vm \in IF method = "InMemory" THEN MemChoices
                    ELSE {[total |-> 4096, available |-> 4096]}
       \/ /\ segyfile \in LongVolumes
          /\ bits_per_voxel = 4
          /\ method = "Stream"
          /\ out_file = Absent
          /\ vm = [total |-> 4096, available |-> 4096]
    /\ fault = NoFault
    /\ pc = "convert_segy"
    /\ diag = NoDiag
    /\ Idle

(***************************************************************************)
(* convert_segy                                                            *)
(***************************************************************************)
\* every method other than "InMemory" taken for "Stream"
Dispatch_DefaultStream ==
    /\ pc = "convert_segy"
    /\ IF method = "InMemory" THEN pc' = "im_guard" /\ error' = error
       ELSE pc' = "run_header" /\ error' = error
    /\ UNCHANGED << inputs, out_file, header, imvars, streamvars, diag >>

\* lines 44-51
Dispatch ==
    /\ pc = "convert_segy"
    /\ IF method = "InMemory" THEN pc' = "im_guard" /\ error' = error
       ELSE IF method = "Stream" THEN pc' = "run_header" /\ error' = error
       ELSE pc' = "raised" /\ error' = "NotImplementedError"
    /\ UNCHANGED << inputs, out_file, header, imvars, streamvars, diag >>

(***************************************************************************)
(* convert_segy_inmem                                                      *)
(***************************************************************************)
cube_bytes(f) ==
    AxisLen(f.samples) * AxisLen(f.xlines) * AxisLen(f.ilines) * 4

\* the guard on the memory that is free
out_of_memory_available(bytes, mem) == bytes > mem.available

\* line 93: cube_bytes > virtual_memory().total
out_of_memory(bytes, mem) == bytes > mem.total

\* the destination opened before the guard
InmemGuard_OpenFirst ==
    /\ pc = "im_guard"
    /\ out_file' = OpenWb
    /\ IF out_of_memory(cube_bytes(segyfile), vm)
       THEN pc' = "raised" /\ error' = "RuntimeError"
       ELSE pc' = "im_header" /\ error' = error
    /\ UNCHANGED << inputs, header, imvars, streamvars, diag >>

\* lines 90-95: the memory guard
InmemGuard ==
    /\ pc = "im_guard"
    /\ IF out_of_memory(cube_bytes(segyfile), vm)
       THEN pc' = "raised" /\ error' = "RuntimeError"
       ELSE pc' = "im_header" /\ error' = error
    /\ UNCHANGED << inputs, out_file, header, imvars, streamvars, diag >>

\* line 97
InmemHeader ==
    /\ pc = "im_header"
    /\ IF make_header_raises(segyfile)
       THEN pc' = "raised" /\ error' = "IndexError" /\ header' = header
       ELSE pc' = "im_read" /\ error' = error
            /\ header' = make_header(segyfile, bits_per_voxel)
    /\ UNCHANGED << inputs, out_file, imvars, streamvars, diag >>

\* the reader raises on an inline among the first n of the file
reader_raises(n) == fault.reader >= 0 /\ fault.reader < n

\* line 100; the reader's error goes to the caller
InmemRead ==
    /\ pc = "im_read"
    /\ IF reader_raises(AxisLen(segyfile.ilines))
       THEN pc' = "raised" /\ error' = "SourceFormatError" /\ data' = data
       ELSE pc' = "im_pad" /\ error' = error /\ data' = cube(segyfile)
    /\ UNCHANGED << inputs, out_file, header, im_padded_shape, data_padded,
                    compressed, streamvars, diag >>

\* lines 103-105; 2048 // 0 raises ZeroDivisionError
InmemPad ==
    /\ pc = "im_pad"
    /\ IF bits_per_voxel = 0
       THEN /\ pc' = "raised"
            /\ error' = "ZeroDivisionError"
            /\ UNCHANGED << im_padded_shape, data_padded >>
       ELSE /\ im_padded_shape' = inmem_padded_shape(DataShape(data), bits_per_voxel)
            /\ data_padded' = padded_volume(data, im_padded_shape')
            /\ pc' = "im_compress"
            /\ error' = error
    /\ UNCHANGED << inputs, out_file, header, data, compressed, streamvars, diag >>

\* line 106
InmemCompress ==
    /\ pc = "im_compress"
    /\ compressed' = compress(data_padded, bits_per_voxel)
    /\ pc' = "im_write"
    /\ UNCHANGED << inputs, out_file, error, header, data, im_padded_shape, data_padded,
                    streamvars, diag >>

\* lines 109-114
InmemWrite ==
    /\ pc = "im_write"
    /\ out_file' = Write(Write(OpenWb, header), compressed)
    /\ pc' = "returned"
    /\ UNCHANGED << inputs, error, header, imvars, streamvars, diag >>

(***************************************************************************)
(* convert_segy_stream: run, produce, consume.  produce runs inside the    *)
(* run task; consume is a task of its own.  A task is switched only at an  *)
(* await; the model lets the other task run between any two statements,    *)
(* which includes every schedule of the event loop.                        *)
(***************************************************************************)
LiveRefs(q, p, c) == (Range(q) \cup {p, c}) \ {0}

\* the event loop of run_until_complete is running the tasks
LoopRunning == pc \in {"produce_open", "produce_build", "produce_put",
                       "run_join", "run_cancel", "run_done", "run_raised"}

\* line 156
RunHeader ==
    /\ pc = "run_header"
    /\ IF make_header_raises(segyfile)
       THEN pc' = "raised" /\ error' = "IndexError" /\ header' = header
       ELSE pc' = "run_schedule" /\ error' = error
            /\ header' = make_header(segyfile, bits_per_voxel)
    /\ UNCHANGED << inputs, out_file, imvars, streamvars, diag >>

\* lines 160-162: the queue, and the consumer scheduled
RunSchedule ==
    /\ pc = "run_schedule"
    /\ queue' = << >>
    /\ unfinished_tasks' = 0
    /\ consumer' = "pending"
    /\ pc' = "produce_open"
    /\ UNCHANGED << inputs, out_file, error, header, imvars, prodvars, heap,
                    c_segy_buffer, c_compressed, cancel_requested, diag >>

\* lines 120-127, and the loop's first test.  The test slice of line 122 is
\* the first inline; 2048 // 0 raises ZeroDivisionError.  An exception leaves
\* produce and run: the run task is done, with the exception.
ProduceOpen ==
    /\ pc = "produce_open"
    /\ IF reader_raises(1)
       THEN /\ pc' = "run_raised"
            /\ error' = "SourceFormatError"
            /\ UNCHANGED << padded_shape, plane_set_id >>
       ELSE IF bits_per_voxel = 0
       THEN /\ pc' = "run_raised"
            /\ error' = "ZeroDivisionError"
            /\ UNCHANGED << padded_shape, plane_set_id >>
       ELSE /\ padded_shape' = stream_padded_shape(segyfile, bits_per_voxel)
            /\ plane_set_id' = 0
            /\ pc' = IF padded_shape'[1] \div BLOCK > 0 THEN "produce_build"
                     ELSE "run_join"
            /\ error' = error
    /\ UNCHANGED << inputs, out_file, header, imvars, segy_buffer, heap, qvars,
                    consvars, diag >>

\* one buffer, allocated before the loop and filled again for every group
ProduceBuild_Reuse ==
    /\ pc = "produce_build"
    /\ segy_buffer' = 1
    /\ heap' = [r \in (DOMAIN heap) \cup {1} |->
                  IF r = 1 THEN group_buffer(segyfile, padded_shape, plane_set_id)
                  ELSE heap[r]]
    /\ pc' = "produce_put"
    /\ UNCHANGED << inputs, out_file, error, header, imvars, padded_shape, plane_set_id,
                    qvars, consvars, diag >>

\* the reader's exception caught inside the loop: the group is enqueued with
\* the inlines read so far
ProduceBuild_Swallow ==
    /\ pc = "produce_build"
    /\ LET ref == plane_set_id + 1
           bad == { i \in 0..(planes_to_read(segyfile, plane_set_id) - 1) :
                      fault.reader = plane_set_id * BLOCK + i }
           whole == group_buffer(segyfile, padded_shape, plane_set_id)
           zeros == np_zeros(<< BLOCK, padded_shape[2], padded_shape[3] >>)
           built == [i \in DOMAIN whole |->
                        IF \E k \in bad : i >= k THEN zeros[i] ELSE whole[i]]
       IN  /\ segy_buffer' = ref
           /\ heap' = Collect(
                 [r \in (DOMAIN heap) \cup {ref} |-> IF r = ref THEN built ELSE heap[r]],
                 LiveRefs(queue, ref, c_segy_buffer))
    /\ pc' = "produce_put"
    /\ UNCHANGED << inputs, out_file, error, header, imvars, padded_shape, plane_set_id,
                    qvars, consvars, diag >>

\* lines 132-139: a new buffer, filled.  An exception of the reader (line
\* 138) leaves produce and run; the buffer being filled is dropped.
ProduceBuild ==
    /\ pc = "produce_build"
    /\ IF \E i \in 0..(planes_to_read(segyfile, plane_set_id) - 1) :
             fault.reader = plane_set_id * BLOCK + i
       THEN /\ pc' = "run_raised"
            /\ error' = "SourceFormatError"
            /\ segy_buffer' = 0
            /\ heap' = Collect(heap, LiveRefs(queue, 0, c_segy_buffer))
       ELSE /\ LET ref == plane_set_id + 1
               IN  /\ segy_buffer' = ref
                   /\ heap' = Collect(
                         [r \in (DOMAIN heap) \cup {ref} |->
                             IF r = ref
                             THEN group_buffer(segyfile, padded_shape, plane_set_id)
                             ELSE heap[r]],
                         LiveRefs(queue, ref, c_segy_buffer))
            /\ pc' = "produce_put"
            /\ error' = error
    /\ UNCHANGED << inputs, out_file, header, imvars, padded_shape, plane_set_id,
                    qvars, consvars, diag >>

\* full only above maxsize
QueueFull_OffByOne(q) == Len(q) > maxsize

\* asyncio.Queue.full()
QueueFull(q) == Len(q) >= maxsize

\* a LIFO queue
QueuePut_Front(q, item) == << item >> \o q

\* asyncio.Queue.put_nowait: FIFO, at the tail
QueuePut(q, item) == Append(q, item)

\* line 141, then the loop's next test; after the last group produce returns
\* and run awaits queue.join()
ProducePut ==
    /\ pc = "produce_put"
    /\ ~QueueFull(queue)
    /\ queue' = QueuePut(queue, segy_buffer)
    /\ unfinished_tasks' = unfinished_tasks + 1
    /\ IF plane_set_id + 1 < padded_shape[1] \div BLOCK
       THEN /\ plane_set_id' = plane_set_id + 1
            /\ pc' = "produce_build"
            /\ UNCHANGED << segy_buffer, heap >>
       ELSE /\ plane_set_id' = plane_set_id
            /\ pc' = "run_join"
            /\ segy_buffer' = 0
            /\ heap' = Collect(heap, LiveRefs(queue', 0, c_segy_buffer))
    /\ UNCHANGED << inputs, out_file, error, header, imvars, padded_shape, consvars, diag >>

\* run without the wait of line 166
RunJoin_NoWait ==
    /\ pc = "run_join"
    /\ pc' = "run_cancel"
    /\ UNCHANGED << inputs, out_file, error, header, imvars, streamvars, diag >>

\* line 166: join returns once every queued item was marked done
RunJoin ==
    /\ pc = "run_join"
    /\ unfinished_tasks = 0
    /\ pc' = "run_cancel"
    /\ UNCHANGED << inputs, out_file, error, header, imvars, streamvars, diag >>

\* line 168; run returns
RunCancel ==
    /\ pc = "run_cancel"
    /\ cancel_requested' = TRUE
    /\ pc' = "run_done"
    /\ UNCHANGED << inputs, out_file, error, header, imvars, prodvars, heap, qvars,
                    consumer, c_segy_buffer, c_compressed, diag >>

\* the destination opened for appending
ConsumeOpen_Append ==
    /\ LoopRunning
    /\ consumer = "pending"
    /\ ~cancel_requested
    /\ out_file' = Write([exists |-> TRUE, data |-> out_file.data], header)
    /\ consumer' = "get"
    /\ UNCHANGED << inputs, pc, error, header, imvars, prodvars, heap, qvars,
                    c_segy_buffer, c_compressed, cancel_requested, diag >>

\* lines 146-147
ConsumeOpen ==
    /\ LoopRunning
    /\ consumer = "pending"
    /\ ~cancel_requested
    /\ out_file' = Write(OpenWb, header)
    /\ consumer' = "get"
    /\ UNCHANGED << inputs, pc, error, header, imvars, prodvars, heap, qvars,
                    c_segy_buffer, c_compressed, cancel_requested, diag >>

\* line 149
ConsumeGet ==
    /\ LoopRunning
    /\ consumer = "get"
    /\ ~cancel_requested
    /\ queue # << >>
    /\ c_segy_buffer' = Head(queue)
    /\ queue' = Tail(queue)
    /\ heap' = Collect(heap, LiveRefs(queue', segy_buffer, c_segy_buffer'))
    /\ consumer' = "compress"
    /\ UNCHANGED << inputs, out_file, pc, error, header, imvars, prodvars,
                    unfinished_tasks, c_compressed, cancel_requested, diag >>

\* the consumer's statement of this stage raises on the group it holds
\* (the buffer of group j has reference j + 1)
consumer_raises(stage) ==
    fault.consumer >= 0 /\ fault.stage = stage /\ c_segy_buffer = fault.consumer + 1

\* line 150.  An exception ends the consumer task: the with statement closes
\* the file, the exception stays in the task, where nothing looks for it.
ConsumeCompress ==
    /\ LoopRunning
    /\ consumer = "compress"
    /\ IF consumer_raises("compress")
       THEN consumer' = "failed" /\ c_compressed' = c_compressed
       ELSE /\ c_compressed' = compress(heap[c_segy_buffer], bits_per_voxel)
            /\ consumer' = "write"
    /\ UNCHANGED << inputs, out_file, pc, error, header, imvars, prodvars, heap, qvars,
                    c_segy_buffer, cancel_requested, diag >>

\* line 151; a write that raises has written nothing of its group
ConsumeWrite ==
    /\ LoopRunning
    /\ consumer = "write"
    /\ IF consumer_raises("write")
       THEN consumer' = "failed" /\ out_file' = out_file
       ELSE /\ out_file' = Write(out_file, c_compressed)
            /\ consumer' = "task_done"
    /\ UNCHANGED << inputs, pc, error, header, imvars, prodvars, heap, qvars,
                    c_segy_buffer, c_compressed, cancel_requested, diag >>

\* the loop of consume without line 152
ConsumeTaskDone_Forgotten ==
    /\ LoopRunning
    /\ consumer = "task_done"
    /\ consumer' = "get"
    /\ UNCHANGED << inputs, out_file, pc, error, header, imvars, prodvars, heap, qvars,
                    c_segy_buffer, c_compressed, cancel_requested, diag >>

\* line 152, and back to the await of line 149
ConsumeTaskDone ==
    /\ LoopRunning
    /\ consumer = "task_done"
    /\ unfinished_tasks' = unfinished_tasks - 1
    /\ consumer' = "get"
    /\ UNCHANGED << inputs, out_file, pc, error, header, imvars, prodvars, heap, queue,
                    c_segy_buffer, c_compressed, cancel_requested, diag >>

\* the CancelledError of line 168 reaches the consumer at its await; the
\* with statement closes the file
ConsumeCancelled ==
    /\ LoopRunning
    /\ cancel_requested
    /\ consumer \in {"pending", "get"}
    /\ consumer' = "cancelled"
    /\ c_segy_buffer' = 0
    /\ c_compressed' = None
    /\ heap' = Collect(heap, LiveRefs(queue, segy_buffer, 0))
    /\ UNCHANGED << inputs, out_file, pc, error, header, imvars, prodvars, qvars,
                    cancel_requested, diag >>

\* lines 175-176: run_until_complete returns after the callbacks scheduled
\* before run's completion (the consumer's cancellation) have run.  When run
\* ended with an exception, run_until_complete raises it, after the
\* callbacks scheduled before (the consumer's first step, scheduled at line
\* 162) have run.
LoopClose ==
    /\ pc \in {"run_done", "run_raised"}
    /\ IF pc = "run_done"
       THEN /\ ~(cancel_requested /\ consumer \in {"pending", "get"})
            /\ pc' = "returned"
       ELSE /\ consumer # "pending"
            /\ pc' = "raised"
    /\ UNCHANGED << inputs, out_file, error, header, imvars, streamvars, diag >>

Next ==
    \/ Dispatch
    \/ InmemGuard
    \/ InmemHeader
    \/ InmemRead
    \/ InmemPad
    \/ InmemCompress
    \/ InmemWrite
    \/ RunHeader
    \/ RunSchedule
    \/ ProduceOpen
    \/ ProduceBuild
    \/ ProducePut
    \/ RunJoin
    \/ RunCancel
    \/ ConsumeOpen
    \/ ConsumeGet
    \/ ConsumeCompress
    \/ ConsumeWrite
    \/ ConsumeTaskDone
    \/ ConsumeCancelled
    \/ LoopClose

Spec == Init /\ [][Next]_vars

(***************************************************************************)
(* The streaming strategy alone, under the event loop's scheduling:        *)
(* asyncio runs every task that is ready, so neither the run task nor the  *)
(* consumer task stays ready forever without being run.                    *)
(***************************************************************************)
StreamVolumes ==
    { Volume(ni, 2, 2) : ni \in 1..MaxInlines } \cup LongVolumes

InitStream ==
    /\ segyfile \in StreamVolumes
    /\ bits_per_voxel = 4
    /\ method = "Stream"
    /\ out_file \in {Absent, OldFile}
    /\ vm = [total |-> 4096, available |-> 4096]
    /\ fault = NoFault
    /\ pc = "convert_segy"
    /\ diag = NoDiag
    /\ Idle

RunNext ==
    \/ Dispatch
    \/ RunHeader
    \/ RunSchedule
    \/ ProduceOpen
    \/ ProduceBuild
    \/ ProducePut
    \/ RunJoin
    \/ RunCancel
    \/ LoopClose

ConsumerNext ==
    \/ ConsumeOpen
    \/ ConsumeGet
    \/ ConsumeCompress
    \/ ConsumeWrite
    \/ ConsumeTaskDone
    \/ ConsumeCancelled

NextStream ==
    \/ RunNext
    \/ ConsumerNext

FairSpec ==
    InitStream /\ [][NextStream]_vars /\ WF_vars(RunNext) /\ WF_vars(ConsumerNext)

(***************************************************************************)
(* Conversions that go wrong: a bits_per_voxel outside the documented      *)
(* rates, a reader that raises on some inline, a consumer whose compress   *)
(* or write raises on some group.                                          *)
(***************************************************************************)
\* the rates convert_segy's docstring does not list
OtherRates == {0, 3, 32}

ReaderFaults(f) ==
    { k \in -1..(AxisLen(f.ilines) - 1) :
        k <= MaxFaultInline \/ k = BLOCK * maxsize \/ k = AxisLen(f.ilines) - 1 }

ConsumerFaults(f) ==
    LET groups == (AxisLen(f.ilines) + BLOCK - 1) \div BLOCK
    IN  { j \in -1..(groups - 1) : j <= MaxFaultGroup \/ j = groups - 1 }

\* no failure, one failure, or a reader's failure next to a consumer that
\* fails on the first group
Faults(f) ==
    { [reader |-> k, consumer |-> j, stage |-> "compress"] :
        k \in ReaderFaults(f), j \in {-1, 0} }
    \cup { [reader |-> -1, consumer |-> j, stage |-> s] :
             j \in ConsumerFaults(f) \ {-1}, s \in {"compress", "write"} }

InitFault ==
    /\ segyfile \in StreamVolumes
    /\ \/ /\ bits_per_voxel \in OtherRates
          /\ method \in {"InMemory", "Stream"}
          /\ fault = NoFault
       \/ /\ bits_per_voxel = 4
          /\ method = "Stream"
          /\ fault \in Faults(segyfile)
       \/ /\ bits_per_voxel = 4
          /\ method = "InMemory"
          /\ fault \in { g \in Faults(segyfile) : g.consumer = -1 }
    /\ out_file \in {Absent, OldFile}
    /\ vm = [total |-> 4096, available |-> 4096]
    /\ pc = "convert_segy"
    /\ diag = NoDiag
    /\ Idle

SpecFault == InitFault /\ [][Next]_vars

\* the streaming strategy with its collaborators failing, under the event
\* loop's scheduling
InitFaultStream ==
    /\ segyfile \in StreamVolumes
    /\ bits_per_voxel = 4
    /\ method = "Stream"
    /\ fault \in Faults(segyfile)
    /\ out_file = Absent
    /\ vm = [total |-> 4096, available |-> 4096]
    /\ pc = "convert_segy"
    /\ diag = NoDiag
    /\ Idle

FairFault ==
    InitFaultStream /\ [][NextStream]_vars /\ WF_vars(RunNext) /\ WF_vars(ConsumerNext)

(***************************************************************************)
(* make_header on its own, over more geometries                            *)
(***************************************************************************)
AxisLens == (1..MaxAxisLen) \cup {65537, 16777474}

HeaderVolumes ==
    { [ilines |-> Axis(ni, fi, 1), xlines |-> Axis(nx, 1, ix), samples |-> Axis(ns, 0, is)] :
        ni \in AxisLens, nx \in AxisLens, ns \in AxisLens,
        fi \in {-3, 1, 1000}, ix \in {1, 5}, is \in {1, 4} }

\* the documented rates and some others
HeaderRates == Rates \cup {0, 3, 32, 300}

InitHeader ==
    /\ segyfile \in HeaderVolumes
    /\ bits_per_voxel \in HeaderRates
    /\ method = "Stream"
    /\ out_file = Absent
    /\ vm = [total |-> 4096, available |-> 4096]
    /\ fault = NoFault
    /\ pc = "make_header"
    /\ diag = NoDiag
    /\ Idle

\* lines 54-86
HeaderCall ==
    /\ pc = "make_header"
    /\ IF make_header_raises(segyfile)
       THEN pc' = "raised" /\ error' = "IndexError" /\ header' = header
       ELSE pc' = "header_made" /\ error' = error
            /\ header' = make_header(segyfile, bits_per_voxel)
    /\ UNCHANGED << inputs, out_file, imvars, streamvars, diag >>

NextHeader == HeaderCall

SpecHeader == InitHeader /\ [][NextHeader]_vars

(***************************************************************************)
(* The padded shapes of the two strategies, side by side                   *)
(***************************************************************************)
PadSamples ==
    { t \in { m * (SAMPLE_BITS \div r) + d : m \in 0..MaxPadMultiple, r \in Rates,
              d \in {-1, 0, 1} } : t >= 1 }

PadVolumes ==
    { Volume(ni, nx, ns) : ni \in 1..MaxPadInlines, nx \in 1..MaxPadXlines, ns \in PadSamples }

InitPad ==
    /\ segyfile \in PadVolumes
    /\ bits_per_voxel \in Rates
    /\ method = "Stream"
    /\ out_file = Absent
    /\ vm = [total |-> 4096, available |-> 4096]
    /\ fault = NoFault
    /\ pc = "padded_shape"
    /\ diag = NoDiag
    /\ Idle

\* line 103 and line 127
PadShapes ==
    /\ pc = "padded_shape"
    /\ im_padded_shape' = inmem_padded_shape(DataShape(cube(segyfile)), bits_per_voxel)
    /\ padded_shape' = stream_padded_shape(segyfile, bits_per_voxel)
    /\ pc' = "padded"
    /\ UNCHANGED << inputs, out_file, error, header, data, data_padded, compressed,
                    plane_set_id, segy_buffer, heap, qvars, consvars, diag >>

NextPad == PadShapes

SpecPad == InitPad /\ [][NextPad]_vars

(***************************************************************************)
(* examples/read-correlated-diagonal.py: the gather from the SEGY file     *)
(***************************************************************************)
\* for l in range(LINE_NO, LINE_NO+40)
LINES == 40

\* the line indices of a grid of I inlines and X crosslines
ValidLine(l, I, X) == -(X - 1) <= l /\ l <= I - 1

\* utils.get_correlated_diagonal_length(l, I, X), for a valid l
get_correlated_diagonal_length(l, I, X) ==
    IF l >= 0 THEN Min(I - l, X) ELSE Min(I, X + l)

\* the d-th coordinate pair of diagonal l
coordinate(l, d) == [inline |-> d + Max(l, 0), crossline |-> d + Max(-l, 0)]

\* the index with the sign of l slipped on the negative side
trace_index_plus(l, d, X) ==
    IF l >= 0 THEN (d + l) * X + d ELSE d * X + d + l

\* lines 34-39: the index given to segyfile.trace
trace_index(l, d, X) ==
    IF l >= 0 THEN (d + l) * X + d ELSE d * X + d - l

\* segyio's trace[i]: a negative i counts from the end, IndexError outside
trace_raises(i, n) == ~(-n <= i /\ i < n)

DiagVolumes ==
    { Volume(ni, nx, 2) : ni \in 1..MaxGrid, nx \in 1..MaxGrid }

\* a grid with LINES valid line indices
LongGrid == Volume(LINES - 2, 3, 2)

InitDiag ==
    /\ \/ /\ segyfile \in DiagVolumes
          /\ \E n \in (-(AxisLen(segyfile.xlines) - 1) - DiagMargin) ..
                      (AxisLen(segyfile.ilines) - 1 + DiagMargin) :
                diag = [LINE_NO |-> n, l |-> n, diagonal_length |-> 0, traces |-> << >>]
       \/ /\ segyfile = LongGrid
          /\ \E n \in {-3, -2} :
                diag = [LINE_NO |-> n, l |-> n, diagonal_length |-> 0, traces |-> << >>]
    /\ bits_per_voxel = 4
    /\ method = "Stream"
    /\ out_file = Absent
    /\ vm = [total |-> 4096, available |-> 4096]
    /\ fault = NoFault
    /\ pc = "diagonal_length"
    /\ Idle

\* the length taken from the formula whatever l is
DiagLength_Unchecked ==
    /\ pc = "diagonal_length"
    /\ diag' = [diag EXCEPT !.diagonal_length =
                     get_correlated_diagonal_length(
                         diag.l, AxisLen(segyfile.ilines), AxisLen(segyfile.xlines)),
                             !.traces = << >>]
    /\ pc' = "gather"
    /\ UNCHANGED << inputs, out_file, error, header, imvars, streamvars >>

\* line 32
DiagLength ==
    /\ pc = "diagonal_length"
    /\ IF ValidLine(diag.l, AxisLen(segyfile.ilines), AxisLen(segyfile.xlines))
       THEN /\ diag' = [diag EXCEPT !.diagonal_length =
                            get_correlated_diagonal_length(
                                diag.l, AxisLen(segyfile.ilines), AxisLen(segyfile.xlines)),
                                    !.traces = << >>]
            /\ pc' = "gather"
            /\ error' = error
       ELSE /\ pc' = "raised"
            /\ error' = "OutOfRangeLineIndex"
            /\ diag' = diag
    /\ UNCHANGED << inputs, out_file, header, imvars, streamvars >>

\* lines 33-39, and the next l
DiagGather ==
    /\ pc = "gather"
    /\ LET X == AxisLen(segyfile.xlines)
           n == AxisLen(segyfile.ilines) * X
           indices == [d \in 1..diag.diagonal_length |-> trace_index(diag.l, d - 1, X)]
       IN  IF \E k \in DOMAIN indices : trace_raises(indices[k], n)
           THEN /\ pc' = "raised"
                /\ error' = "IndexError"
                /\ diag' = diag
           ELSE /\ diag' = [diag EXCEPT !.traces = indices, !.l = diag.l + 1]
                /\ pc' = IF diag.l + 1 < diag.LINE_NO + LINES THEN "diagonal_length"
                         ELSE "gathered"
                /\ error' = error
    /\ UNCHANGED << inputs, out_file, header, imvars, streamvars >>

NextDiag ==
    \/ DiagLength
    \/ DiagGather

SpecDiag == InitDiag /\ [][NextDiag]_vars

(***************************************************************************)
(* Properties                                                              *)
(***************************************************************************)
\* ceil(I / 4)
NumGroups == (AxisLen(segyfile.ilines) + BLOCK - 1) \div BLOCK

\* the compressed inline group k of the source
GroupCode(k) ==
    compress(group_buffer(segyfile, stream_padded_shape(segyfile, bits_per_voxel), k),
             bits_per_voxel)

\* the compressed groups 0 .. j-1, in order
RECURSIVE GroupCodes(_)
GroupCodes(j) == IF j = 0 THEN << >> ELSE GroupCodes(j - 1) \o GroupCode(j - 1)

\* the number of whole groups after the header in the destination
GroupsWritten == (Len(out_file.data) - Len(header)) \div Len(GroupCode(0))

\* the number of groups the producer has put
Enqueued ==
    IF pc \in {"produce_build", "produce_put"} THEN plane_set_id
    ELSE IF pc \in {"run_join", "run_cancel", "run_done", "returned"} THEN NumGroups
    ELSE 0

Streaming == method = "Stream" /\ consumer \notin {"none", "pending"}

\* the file convert_segy_inmem writes for the source
InmemFile ==
    make_header(segyfile, bits_per_voxel)
        \o compress(padded_volume(cube(segyfile),
                                  inmem_padded_shape(DataShape(cube(segyfile)),
                                                     bits_per_voxel)),
                    bits_per_voxel)

\* C1: once the consumer has opened the destination, it holds the header
\* followed by the compressed groups 0, 1, ..., j-1 in this order, each once,
\* and all NumGroups of them when the conversion has returned.
C1_GroupOrder ==
    Streaming =>
        /\ GroupsWritten \in 0..NumGroups
        /\ out_file.data = header \o GroupCodes(GroupsWritten)
        /\ pc = "returned" => GroupsWritten = NumGroups

C1_Witness ==
    /\ Streaming
    /\ pc = "returned"
    /\ NumGroups > maxsize
    /\ AxisLen(segyfile.ilines) % BLOCK # 0

\* C2: a completed conversion, streaming or whole-volume, leaves exactly the
\* file of the whole-volume computation: the header followed by the codes of
\* the padded cube.
C2_SameFile ==
    pc = "returned" => out_file.exists /\ out_file.data = InmemFile

C2_Witness ==
    /\ pc = "returned"
    /\ method = "Stream"
    /\ AxisLen(segyfile.ilines) = BLOCK + 1
    /\ AxisLen(segyfile.xlines) % BLOCK # 0
    /\ bits_per_voxel = 16

\* C3: the queue never holds more than maxsize references and at most
\* maxsize + 2 group buffers are alive; a step from a state with a full
\* queue leaves the queue alone or takes its head out, and leaves a producer
\* that is at its put there.
C3_Backpressure ==
    /\ [](Len(queue) <= maxsize /\ Cardinality(DOMAIN heap) <= maxsize + 2)
    /\ [][Len(queue) = maxsize =>
            /\ queue' \in {queue, Tail(queue)}
            /\ pc = "produce_put" => pc' = "produce_put" /\ segy_buffer' = segy_buffer]_vars

C3_Witness ==
    /\ pc = "produce_put"
    /\ Len(queue) = maxsize
    /\ Cardinality(DOMAIN heap) = maxsize + 2

\* C4: the consumer is cancelled only after the producer has returned, with
\* the queue empty, the consumer at its await and the destination holding
\* the header and all the groups; no group is marked done before it is
\* written.
C4_CancelAfterDrain ==
    /\ (pc \in {"run_cancel", "run_done"} \/ cancel_requested
            \/ (pc = "returned" /\ method = "Stream")) =>
          /\ Enqueued = NumGroups
          /\ queue = << >>
          /\ unfinished_tasks = 0
          /\ consumer \in {"get", "cancelled"}
          /\ out_file.data = header \o GroupCodes(NumGroups)
    /\ Streaming => Enqueued - unfinished_tasks <= GroupsWritten

C4_Witness ==
    /\ pc = "returned"
    /\ method = "Stream"
    /\ consumer = "cancelled"
    /\ NumGroups = 2

\* C5: with every ready task run, a streaming conversion whose pipeline was
\* started returns.
C5_Completes == (pc = "run_schedule") ~> (pc = "returned")

C5_Witness ==
    /\ pc = "returned"
    /\ method = "Stream"
    /\ NumGroups = maxsize + 1

\* C6: both padded shapes are multiples of (4, 4, 2048 // bits_per_voxel),
\* not below the source's shape, and equal to each other.
C6_PaddedShape ==
    pc = "padded" =>
        /\ padded_shape[1] % 4 = 0
        /\ padded_shape[2] % 4 = 0
        /\ padded_shape[3] % (2048 \div bits_per_voxel) = 0
        /\ padded_shape[1] >= AxisLen(segyfile.ilines)
        /\ padded_shape[2] >= AxisLen(segyfile.xlines)
        /\ padded_shape[3] >= AxisLen(segyfile.samples)
        /\ im_padded_shape = padded_shape

C6_Witness ==
    /\ pc = "padded"
    /\ AxisLen(segyfile.ilines) % 4 = 1
    /\ AxisLen(segyfile.samples) = (2048 \div bits_per_voxel) + 1
    /\ padded_shape[3] = 2 * (2048 \div bits_per_voxel)

\* C7: for a valid line index the diagonal length is at least 1, it is the
\* number of coordinate pairs of the diagonal inside the grid, and every
\* trace index of the gather is that of its coordinate pair, within
\* [0, I*X).
C7_DiagonalLength ==
    pc = "gather" =>
        LET I == AxisLen(segyfile.ilines)
            X == AxisLen(segyfile.xlines)
            l == diag.l
            inside == { d \in 0..(I + X) :
                          coordinate(l, d).inline < I /\ coordinate(l, d).crossline < X }
        IN  /\ ValidLine(l, I, X)
            /\ diag.diagonal_length >= 1
            /\ diag.diagonal_length = Cardinality(inside)
            /\ \A d \in 0..(diag.diagonal_length - 1) :
                  /\ trace_index(l, d, X) >= 0
                  /\ trace_index(l, d, X) < I * X
                  /\ trace_index(l, d, X) =
                        coordinate(l, d).inline * X + coordinate(l, d).crossline

C7_Witness ==
    /\ pc = "gather"
    /\ diag.l < 0
    /\ diag.diagonal_length >= 2
    /\ AxisLen(segyfile.ilines) < AxisLen(segyfile.xlines)

\* C8: the header is 4096 bytes, its fields at their offsets, zero from
\* byte 44 on.
C8_HeaderLayout ==
    pc = "header_made" =>
        /\ Len(header) = 4096
        /\ \A k \in 1..Len(header) : header[k] \in 0..255
        /\ from_bytes(SubSeq(header, 1, 4)) = 1
        /\ from_bytes(SubSeq(header, 5, 8)) = AxisLen(segyfile.samples)
        /\ from_bytes(SubSeq(header, 9, 12)) = AxisLen(segyfile.xlines)
        /\ from_bytes(SubSeq(header, 13, 16)) = AxisLen(segyfile.ilines)
        /\ bytes_to_float(SubSeq(header, 17, 20)) = segyfile.samples.first
        /\ bytes_to_float(SubSeq(header, 21, 24)) = segyfile.xlines.first
        /\ bytes_to_float(SubSeq(header, 25, 28)) = segyfile.ilines.first
        /\ bytes_to_float(SubSeq(header, 29, 32)) = segyfile.samples.inc
        /\ bytes_to_float(SubSeq(header, 33, 36)) = segyfile.xlines.inc
        /\ bytes_to_float(SubSeq(header, 37, 40)) = segyfile.ilines.inc
        /\ from_bytes(SubSeq(header, 41, 44)) = bits_per_voxel
        /\ \A k \in 45..4096 : header[k] = 0

C8_Witness ==
    /\ pc = "header_made"
    /\ AxisLen(segyfile.samples) = 65537
    /\ AxisLen(segyfile.ilines) = 16777474
    /\ segyfile.ilines.first = -3
    /\ bits_per_voxel = 300

\* C9 as stated: the guard fails exactly when the estimate exceeds the
\* available memory.
C9_AvailableMemory ==
    (method = "InMemory" /\ pc \notin {"convert_segy", "im_guard"}) =>
        (error = "RuntimeError" <=> cube_bytes(segyfile) > vm.available)

\* C9, amended: the guard fails exactly when the estimate exceeds the total
\* physical memory.
C9_TotalMemory ==
    (method = "InMemory" /\ pc \notin {"convert_segy", "im_guard"}) =>
        (error = "RuntimeError" <=> cube_bytes(segyfile) > vm.total)

C9_Witness ==
    /\ method = "InMemory"
    /\ error = "RuntimeError"
    /\ cube_bytes(segyfile) > vm.total

\* C10: when the memory guard fails no header was built, no volume read, no
\* padded buffer allocated, and the destination is as it was: the failing
\* step leaves it alone and it is still absent or the old file.
C10_GuardBeforeEffects ==
    /\ [](error = "RuntimeError" =>
            /\ header = None
            /\ data = None
            /\ data_padded = None
            /\ compressed = None
            /\ out_file \in {Absent, OldFile})
    /\ [][error' = "RuntimeError" => out_file' = out_file]_vars

C10_Witness ==
    /\ error = "RuntimeError"
    /\ pc = "raised"
    /\ out_file = OldFile

\* C11: a method other than "InMemory" and "Stream" makes convert_segy raise
\* NotImplementedError at its first step, with nothing read, built or
\* scheduled and the destination as it was; "InMemory" runs only
\* convert_segy_inmem and "Stream" only convert_segy_stream.
C11_UnsupportedMethod ==
    /\ [][(pc = "convert_segy" /\ method \notin {"InMemory", "Stream"}) =>
            /\ pc' = "raised"
            /\ error' = "NotImplementedError"
            /\ out_file' = out_file]_vars
    /\ []((method \notin {"InMemory", "Stream"}) =>
            /\ pc \in {"convert_segy", "raised"}
            /\ Idle \/ (error = "NotImplementedError" /\ header = None /\ data = None
                          /\ padded_shape = None /\ heap = << >> /\ consumer = "none")
            /\ out_file \in {Absent, OldFile})
    /\ [](error = "NotImplementedError" => method \notin {"InMemory", "Stream"})
    /\ [](method = "InMemory" =>
            /\ pc \in {"convert_segy", "im_guard", "im_header", "im_read", "im_pad",
                        "im_compress", "im_write", "returned", "raised"}
            /\ consumer = "none" /\ padded_shape = None /\ heap = << >>)
    /\ [](method = "Stream" =>
            /\ pc \notin {"im_guard", "im_header", "im_read", "im_pad", "im_compress",
                           "im_write"}
            /\ data = None /\ data_padded = None /\ compressed = None)

C11_Witness ==
    /\ method \notin {"InMemory", "Stream"}
    /\ pc = "raised"
    /\ error = "NotImplementedError"
    /\ out_file = OldFile

\* C12: a conversion asked with a bits_per_voxel outside {1, 2, 4, 8, 16}
\* never returns normally, and the destination stays as it was found.
C12_InvalidBitsPerVoxel ==
    (bits_per_voxel \notin Rates) =>
        /\ pc # "returned"
        /\ out_file \in {Absent, OldFile}

\* the source has fewer than 2 values along some axis
ShortAxis ==
    \E axis \in {segyfile.ilines, segyfile.xlines, segyfile.samples} : AxisLen(axis) < 2

\* C13: for a source with fewer than 2 values along an axis, make_header
\* raises (IndexError) when it is called, in both strategies before the
\* consumer is scheduled and before the destination is opened: no header is
\* ever built, the destination stays as it was found, and the call ends
\* raised -- with the memory guard's error when that guard failed first.
C13_InvalidGeometry ==
    /\ [][(pc \in {"im_header", "run_header"} /\ ShortAxis) =>
            /\ pc' = "raised"
            /\ error' = "IndexError"
            /\ header' = None
            /\ out_file' = out_file]_vars
    /\ []((ShortAxis /\ method \in {"InMemory", "Stream"}) =>
            /\ pc \in {"convert_segy", "im_guard", "im_header", "run_header", "raised"}
            /\ header = None
            /\ consumer = "none"
            /\ out_file \in {Absent, OldFile}
            /\ pc = "raised" =>
                  \/ error = "IndexError"
                  \/ error = "RuntimeError" /\ method = "InMemory"
                        /\ cube_bytes(segyfile) > vm.total)
    /\ [](error = "IndexError" => ShortAxis)

C13_Witness ==
    /\ AxisLen(segyfile.xlines) = 1
    /\ AxisLen(segyfile.samples) > 1
    /\ AxisLen(segyfile.ilines) > 1
    /\ method = "Stream"
    /\ pc = "raised"
    /\ error = "IndexError"
    /\ out_file = OldFile

\* the producer's next statement reads an inline the reader raises on
ReaderRaisesNow ==
    \/ pc = "produce_open" /\ fault.reader = 0
    \/ /\ pc = "produce_build"
       /\ fault.reader \in (BLOCK * plane_set_id) ..
                            Min(BLOCK * plane_set_id + BLOCK - 1,
                                AxisLen(segyfile.ilines) - 1)

\* C14: in the streaming strategy, when the reader raises while the producer
\* reads an inline (of the first group or of a later one), that step ends
\* the run task with the reader's error, the call then raises this error to
\* the caller, and a call on a source with an inline the reader raises on
\* never returns normally; a call that returns normally has written every
\* group.
C14_ReaderErrorSurfaces ==
    /\ [][(ReaderRaisesNow /\ pc' # pc) =>
            (pc' = "run_raised" /\ error' = "SourceFormatError")]_vars
    /\ []((method = "Stream" /\ fault.reader \in 0..(AxisLen(segyfile.ilines) - 1)) =>
              pc # "returned")
    /\ []((method = "Stream" /\ pc = "returned") =>
              out_file.data = header \o GroupCodes(NumGroups))
    /\ [](error = "SourceFormatError" =>
              pc \in {"run_raised", "raised"} /\ fault.reader >= 0)
    /\ (error = "SourceFormatError") ~> (pc = "raised" /\ error = "SourceFormatError")

C14_Witness ==
    /\ method = "Stream"
    /\ pc = "raised"
    /\ error = "SourceFormatError"
    /\ fault.reader >= BLOCK * maxsize
    /\ Len(out_file.data) > Len(header)

SourceSample(i, x, s) ==
    1 + (i * AxisLen(segyfile.xlines) + x) * AxisLen(segyfile.samples) + s

\* cell (slot, x, s) of the buffer of group k holds the sample of source
\* inline 4k + slot when that inline, x and s are in the source, else zero
CellAsSpecified(buffer, k, slot, x, s) ==
    VecAt(buffer[slot][x], s) =
        IF /\ BLOCK * k + slot < AxisLen(segyfile.ilines)
           /\ x < AxisLen(segyfile.xlines)
           /\ s < AxisLen(segyfile.samples)
        THEN SourceSample(BLOCK * k + slot, x, s)
        ELSE 0

\* the sample positions looked at: the source's, the first of the padding
\* and the last of the buffer
SamplesLookedAt(len) == { s \in 0..(len - 1) : s <= AxisLen(segyfile.samples) \/ s = len - 1 }

\* the buffer has shape (4, X', S') and every cell of it is as specified
GroupAsSpecified(buffer, k) ==
    /\ DOMAIN buffer = 0..(BLOCK - 1)
    /\ \A slot \in DOMAIN buffer :
          /\ DOMAIN buffer[slot] = 0..(pad(AxisLen(segyfile.xlines), 4) - 1)
          /\ \A x \in DOMAIN buffer[slot] :
                /\ buffer[slot][x].len =
                      pad(AxisLen(segyfile.samples), 2048 \div bits_per_voxel)
                /\ Len(buffer[slot][x].head) <= AxisLen(segyfile.samples)
                /\ \A s \in SamplesLookedAt(buffer[slot][x].len) :
                      CellAsSpecified(buffer, k, slot, x, s)

GroupCodeLen == pad(AxisLen(segyfile.xlines), 4) \div 4

HandedOver == (Range(queue) \cup {c_segy_buffer}) \ {0}

\* C18: the buffer the producer fills for a group is a new one, referenced
\* neither from the queue nor by the consumer; a buffer that is in the queue
\* or in the consumer's hands is alive and no step changes its contents,
\* however many groups the producer builds meanwhile; what the consumer
\* has compressed is the code of the group as the producer filled it.
C18_FreshBuffers ==
    /\ [][(pc = "produce_build" /\ pc' = "produce_put") =>
            /\ segy_buffer' \notin HandedOver
            /\ segy_buffer' \notin DOMAIN heap
            /\ segy_buffer' \in DOMAIN heap']_vars
    /\ [][\A r \in HandedOver :
            /\ r \in DOMAIN heap
            /\ r \in DOMAIN heap' => heap'[r] = heap[r]]_vars
    /\ []((consumer \in {"write", "task_done"}) =>
            c_compressed = GroupCode(c_segy_buffer - 1))

C18_Witness ==
    /\ consumer = "compress"
    /\ c_segy_buffer = 1
    /\ pc = "produce_put"
    /\ Len(queue) = maxsize
    /\ segy_buffer = maxsize + 2

\* C19: when compress or write raises inside the consumer, the streaming
\* conversion ends: the call raises to its caller.
C19_ConsumerFailureEnds == (consumer = "failed") ~> (pc = "raised")

====
